---- MODULE Spec2Model ----
(***************************************************************************)
(* Phaser.Geom.Mesh.Model (src/src/geom/mesh/Model.js): one renderable     *)
(* entity's packed vertex buffer, its transform state, the snapshot-diff   *)
(* dirty cache and the gated matrix recompute.                             *)
(*                                                                         *)
(* Numbers are modelled exactly: JavaScript doubles by integers (and by    *)
(* normalised rationals <<num, den>> inside the matrices), the Float32     *)
(* view by the integers it can hold (Fround).  Scale components are        *)
(* non-zero, so the transform matrix is always invertible.                 *)
(***************************************************************************)
EXTENDS Integers, Sequences, FiniteSets, TLC

VARIABLES
    anims,            \* this.anims: the AnimationState, or Null
    vertexCount,      \* this.vertexCount
    vertexViewF32,    \* this.vertexViewF32 over this.vertexData, or Null
    position,         \* this.position  <<x, y, z>>, or Null
    scale,            \* this.scale     <<x, y, z>>, or Null
    rotation,         \* this.rotation  <<x, y, z, w>>, or Null
    dirtyCache,       \* this.dirtyCache, 11 slots
    normalMatrix,     \* this.normalMatrix, 16 rationals (column major), or Null
    transformMatrix,  \* this.transformMatrix, 16 rationals, or Null
    last,             \* history: the operation that ran last and how it ended
    hist              \* history: workload, counters and flags of the run so far

model == <<anims, vertexCount, vertexViewF32, position, scale, rotation,
           dirtyCache, normalMatrix, transformMatrix>>
vars == <<anims, vertexCount, vertexViewF32, position, scale, rotation,
          dirtyCache, normalMatrix, transformMatrix, last, hist>>

-----------------------------------------------------------------------------
(* Bounds of the exploration *)

\* value-changing or not, at most this many transform mutator calls per run
MaxMutations == 2
\* at most this many preUpdate calls per run
MaxUpdates == 2
\* at most this many addVertex calls per run of the buffer workload
MaxAppends == 3
\* getVertex is asked for indices 0 .. MaxIndex, getFace for 0 .. MaxIndex \div 3
MaxIndex == 3

\* a reference that destroy() has set to null
Null == <<>>
\* a JavaScript value read from the view: <<n>> is the number n, <<>> undefined
Undefined == <<>>
Num(n) == <<n>>
IsNum(v) == Len(v) = 1

-----------------------------------------------------------------------------
(* Exact arithmetic *)

Abs(n) == IF n < 0 THEN -n ELSE n

RECURSIVE GCD(_, _)
GCD(a, b) == IF b = 0 THEN a ELSE GCD(b, a % b)

\* the rational n/d in lowest terms with a positive denominator
Rat(n, d) ==
    LET g == GCD(Abs(n), Abs(d))
        s == IF d < 0 THEN -1 ELSE 1
    IN  <<(s * n) \div g, (s * d) \div g>>
R(n) == <<n, 1>>
RAdd(a, b) == Rat(a[1] * b[2] + b[1] * a[2], a[2] * b[2])
RSub(a, b) == Rat(a[1] * b[2] - b[1] * a[2], a[2] * b[2])
RMul(a, b) == Rat(a[1] * b[1], a[2] * b[2])
RDiv(a, b) == Rat(a[1] * b[2], a[2] * b[1])

\* the spacing of float32 values around the integer n (1 up to 2^24)
RECURSIVE Ulp(_)
Ulp(n) == IF Abs(n) < 16777216 THEN 1 ELSE 2 * Ulp(Abs(n) \div 2)

\* storing the integer n into a Float32Array element: round to nearest, ties to even
Fround(n) ==
    LET u == Ulp(n)
        q == Abs(n) \div u
        r == Abs(n) % u
        up == (2 * r > u) \/ (2 * r = u /\ q % 2 = 1)
        m == (IF up THEN q + 1 ELSE q) * u
    IN  IF n < 0 THEN -m ELSE m

-----------------------------------------------------------------------------
(* Quaternion, Vector3 and Matrix4: the math classes Model.js requires      *)
(* (lines 11-14).  A matrix is 16 rationals in column-major order, entry k  *)
(* of the JavaScript array at position k + 1.                               *)

\* new Quaternion(): the identity rotation
IdentityQuat == <<0, 0, 0, 1>>

\* sine and cosine of rad / 2 for the angles the runs rotate by: 0 and pi
HalfAngles == {<<0, 1>>, <<1, 0>>}

\* Hamilton product a * b of quaternions <<x, y, z, w>>
QuatMul(a, b) ==
    << a[4] * b[1] + a[1] * b[4] + a[2] * b[3] - a[3] * b[2],
       a[4] * b[2] - a[1] * b[3] + a[2] * b[4] + a[3] * b[1],
       a[4] * b[3] + a[1] * b[2] - a[2] * b[1] + a[3] * b[4],
       a[4] * b[4] - a[1] * b[1] - a[2] * b[2] - a[3] * b[3] >>

\* Quaternion.rotateX/Y/Z(rad): q *= rotation by rad about the axis; h = <<sin, cos>> of rad / 2
QuatRotateX(q, h) == QuatMul(q, <<h[1], 0, 0, h[2]>>)
QuatRotateY(q, h) == QuatMul(q, <<0, h[1], 0, h[2]>>)
QuatRotateZ(q, h) == QuatMul(q, <<0, 0, h[1], h[2]>>)

\* new Matrix4(): the identity matrix
IdentityMatrix == [k \in 1..16 |-> IF k \in {1, 6, 11, 16} THEN R(1) ELSE R(0)]

\* Matrix4.fromRotationTranslation(q, v): rotation by q, then translation by v
FromRotationTranslation(q, v) ==
    LET x == q[1]  y == q[2]  z == q[3]  w == q[4]
        x2 == x + x  y2 == y + y  z2 == z + z
        xx == x * x2  xy == x * y2  xz == x * z2
        yy == y * y2  yz == y * z2  zz == z * z2
        wx == w * x2  wy == w * y2  wz == w * z2
    IN  << R(1 - (yy + zz)), R(xy + wz),       R(xz - wy),       R(0),
           R(xy - wz),       R(1 - (xx + zz)), R(yz + wx),       R(0),
           R(xz + wy),       R(yz - wx),       R(1 - (xx + yy)), R(0),
           R(v[1]),          R(v[2]),          R(v[3]),          R(1) >>

\* Matrix4.scale(s): the first three columns times s.x, s.y, s.z
ScaleMatrix(m, s) ==
    [k \in 1..16 |-> IF k <= 4 THEN RMul(m[k], R(s[1]))
                     ELSE IF k <= 8 THEN RMul(m[k], R(s[2]))
                     ELSE IF k <= 12 THEN RMul(m[k], R(s[3]))
                     ELSE m[k]]

\* Matrix4.transpose()
Transpose(m) == [k \in 1..16 |-> m[4 * ((k - 1) % 4) + ((k - 1) \div 4) + 1]]

\* Matrix4.invert(): adjugate over determinant; a singular matrix is left as it is
Invert(m) ==
    LET a00 == m[1]   a01 == m[2]   a02 == m[3]   a03 == m[4]
        a10 == m[5]   a11 == m[6]   a12 == m[7]   a13 == m[8]
        a20 == m[9]   a21 == m[10]  a22 == m[11]  a23 == m[12]
        a30 == m[13]  a31 == m[14]  a32 == m[15]  a33 == m[16]
        D(p, q, r, s) == RSub(RMul(p, q), RMul(r, s))
        b00 == D(a00, a11, a01, a10)
        b01 == D(a00, a12, a02, a10)
        b02 == D(a00, a13, a03, a10)
        b03 == D(a01, a12, a02, a11)
        b04 == D(a01, a13, a03, a11)
        b05 == D(a02, a13, a03, a12)
        b06 == D(a20, a31, a21, a30)
        b07 == D(a20, a32, a22, a30)
        b08 == D(a20, a33, a23, a30)
        b09 == D(a21, a32, a22, a31)
        b10 == D(a21, a33, a23, a31)
        b11 == D(a22, a33, a23, a32)
        \* p*q - r*s + t*u
        T(p, q, r, s, t, u) == RAdd(RSub(RMul(p, q), RMul(r, s)), RMul(t, u))
        \* p*q - r*s - t*u
        U(p, q, r, s, t, u) == RSub(RSub(RMul(p, q), RMul(r, s)), RMul(t, u))
        det == RAdd(T(b00, b11, b01, b10, b02, b09), U(b03, b08, b04, b07, RSub(R(0), b05), b06))
    IN  IF det = R(0) THEN m
        ELSE << RDiv(T(a11, b11, a12, b10, a13, b09), det),
                RDiv(U(a02, b10, a01, b11, a03, b09), det),
                RDiv(T(a31, b05, a32, b04, a33, b03), det),
                RDiv(U(a22, b04, a21, b05, a23, b03), det),
                RDiv(U(a12, b08, a10, b11, a13, b07), det),
                RDiv(T(a00, b11, a02, b08, a03, b07), det),
                RDiv(U(a32, b02, a30, b05, a33, b01), det),
                RDiv(T(a20, b05, a22, b02, a23, b01), det),
                RDiv(T(a10, b10, a11, b08, a13, b06), det),
                RDiv(U(a01, b08, a00, b10, a03, b06), det),
                RDiv(T(a30, b04, a31, b02, a33, b00), det),
                RDiv(U(a21, b02, a20, b04, a23, b00), det),
                RDiv(U(a11, b07, a10, b09, a12, b06), det),
                RDiv(T(a00, b09, a01, b07, a02, b06), det),
                RDiv(U(a31, b01, a30, b03, a32, b00), det),
                RDiv(T(a20, b03, a21, b01, a22, b00), det) >>

\* the product a * b of two column-major matrices
MatMul(a, b) ==
    LET Dot(r, c) == RAdd(RAdd(RMul(a[r], b[4 * c + 1]), RMul(a[4 + r], b[4 * c + 2])),
                          RAdd(RMul(a[8 + r], b[4 * c + 3]), RMul(a[12 + r], b[4 * c + 4])))
    IN  [k \in 1..16 |-> Dot(((k - 1) % 4) + 1, (k - 1) \div 4)]

\* the pure translation by v
TranslationMatrix(v) ==
    [k \in 1..16 |-> IF k \in {1, 6, 11, 16} THEN R(1)
                     ELSE IF k = 13 THEN R(v[1])
                     ELSE IF k = 14 THEN R(v[2])
                     ELSE IF k = 15 THEN R(v[3])
                     ELSE R(0)]

-----------------------------------------------------------------------------
(* Inputs of the runs *)

\* values written through the x, y, z accessors
XValues == {0, 1}
YValues == {0, 2}
ZValues == {0, 3}
\* values written through the scaleX, scaleY, scaleZ accessors
ScaleValues == {1, 2}

\* addVertex arguments <<x, y, z, u, v, normalX, normalY, normalZ>>; the last one
\* has eight different values, its z not representable in float32
VertexInputs ==
    { <<0, 0, 0, 0, 0, 0, 0, 1>>,
      <<1, 0, 0, 1, 0, 0, 0, 1>>,
      <<0, 1, 16777217, 4, 5, 6, 7, 8>> }

\* the two workloads a run is drawn from: one exercises the transform (mutators,
\* isDirty, preUpdate, one append, destroy), one the buffer (appends, the queries and
\* accessors, addVertices, isDirty, preUpdate, destroy)
Workloads == {"transform", "buffer"}
Queries(load) == load = "buffer"
\* constructor positions x, y, z (each defaults to 0)
CtorPositions(load) == IF load = "buffer" THEN {<<0, 0, 0>>} ELSE {<<0, 0, 0>>, <<1, 2, 3>>}
\* verticesCount given to the constructor
Capacities(load) == IF load = "buffer" THEN {1, 3} ELSE {1}
MutationLimit(load) == IF load = "buffer" THEN 0 ELSE MaxMutations
AppendLimit(load) == IF load = "buffer" THEN MaxAppends ELSE 1
AppendInputs(load) ==
    IF load = "buffer" THEN VertexInputs ELSE {<<0, 0, 0, 0, 0, 0, 0, 1>>}

\* addVertices arguments <<vertices, uvs, indicies>>; indicies <<>> stands for none given
QuadVertices == <<-128, 128, 128, 128, -128, -128, 128, -128>>
QuadUVs == <<0, 1, 1, 1, 0, 0, 1, 0>>
AddVerticesInputs ==
    { <<(<<0, 0, 1, 0, 0, 1>>), (<<0, 0, 1, 0, 0, 1>>), (<<>>)>>,
      <<QuadVertices, QuadUVs, (<<0, 2, 1, 2, 3, 1>>)>>,
      <<(<<>>), (<<>>), (<<>>)>>,
      <<(<<0, 0, 1, 0>>), (<<0, 0>>), (<<>>)>>,
      <<(<<0, 0>>), (<<0, 0, 1, 0>>), (<<0>>)>> }

-----------------------------------------------------------------------------
(* Construction *)

\* this.vertexSize / 4: the float32 attributes of one vertex
AttributeCount == 8

\* this.dirtyCache as the constructor fills it
InitialDirtyCache(x, y, z) == <<x, y, z, 0, 0, 0, 1, 1, 1, 1, 0>>

\* new Float32Array(new ArrayBuffer(verticesCount * 32)): zero filled
NewVertexView(verticesCount) == [k \in 1..(verticesCount * AttributeCount) |-> 0]

\* how the last call ended: what it returned or the error it threw; for a transform
\* mutator, whether it changed the value of the component it wrote; for isDirty,
\* what the call came after
Returned(op, args, ret) ==
    [op |-> op, args |-> args, threw |-> "none", ret |-> ret, changed |-> FALSE,
     after |-> ""]
Threw(op, args, error) ==
    [op |-> op, args |-> args, threw |-> error, ret |-> <<>>, changed |-> FALSE,
     after |-> ""]

\* the eleven monitored values isDirty reads: position | rotation | scale | verts count
Monitored ==
    << position[1], position[2], position[3],
       rotation[1], rotation[2], rotation[3], rotation[4],
       scale[1], scale[2], scale[3],
       vertexCount >>

\* new AnimationState(this): no update received yet
NewAnimationState == <<"AnimationState", 0>>

\* hist.seen: the monitored values as they were when the object was constructed or,
\* after that, when the last isDirty call (from outside or from preUpdate) returned;
\* hist.swallowed: an isDirty call from outside preUpdate has returned true, and no
\* monitored value has been changed since; hist.appends: the addVertex calls that
\* have returned
Init ==
    \E load \in Workloads :
    \E verticesCount \in Capacities(load) :
    \E p \in CtorPositions(load) :
        /\ anims = NewAnimationState
        /\ vertexCount = 0
        /\ vertexViewF32 = NewVertexView(verticesCount)
        /\ position = p
        /\ scale = <<1, 1, 1>>
        /\ rotation = IdentityQuat
        /\ dirtyCache = InitialDirtyCache(p[1], p[2], p[3])
        /\ normalMatrix = IdentityMatrix
        /\ transformMatrix = IdentityMatrix
        /\ last = Returned("Model", <<verticesCount, p[1], p[2], p[3]>>, <<>>)
        /\ hist = [load |-> load, mutations |-> 0, changes |-> 0, checked |-> FALSE,
                   appended |-> <<>>, appends |-> 0, seen |-> Monitored,
                   swallowed |-> FALSE]

-----------------------------------------------------------------------------
(* isDirty and preUpdate *)

\* a comparison that leaves the vertex count out
isDirtyReturnSkipsCount == \E k \in 1..10 : dirtyCache[k] # Monitored[k]

\* the value isDirty returns: some cached slot differs (!==) from the value read now
isDirtyReturn == \E k \in 1..11 : dirtyCache[k] # Monitored[k]

\* a cache update that skips slot 0 (dirtyCache[0] = px left out)
isDirtyCacheSkipsX == [Monitored EXCEPT ![1] = dirtyCache[1]]

\* a cache update that skips slot 10 (dirtyCache[10] = this.vertexCount left out)
isDirtyCacheSkipsCount == [Monitored EXCEPT ![11] = dirtyCache[11]]

\* a check that compares and leaves the cache as it found it
isDirtyCacheKept == dirtyCache

\* the cache as isDirty leaves it: every slot overwritten with the value read now
isDirtyCache == Monitored

\* a recompute that leaves out transformMatrix.scale(this.scale)
RecomputedTransformUnscaled == FromRotationTranslation(rotation, position)

\* what preUpdate stores in this.transformMatrix when dirty
RecomputedTransform == ScaleMatrix(FromRotationTranslation(rotation, position), scale)

\* what preUpdate stores in this.normalMatrix when dirty: copy, invert, transpose
RecomputedNormal(transform) == Transpose(Invert(transform))

Mutators == {"set x", "set y", "set z", "set scaleX", "set scaleY", "set scaleZ",
             "rotateX", "rotateY", "rotateZ"}

\* what an isDirty call comes after: "single" is a mutator call that changed a value,
\* the only such change since the previous check (or construction); "changed" a
\* mutator call that changed a value, after earlier unchecked changes; "check" a
\* completed isDirty or preUpdate
Preceding ==
    IF last.op \in Mutators /\ last.changed
    THEN (IF hist.changes = 1 THEN "single" ELSE "changed")
    ELSE IF last.op \in {"isDirty", "preUpdate"} /\ last.threw = "none" THEN "check"
    ELSE "other"

\* isDirty() called from outside preUpdate
isDirty ==
    IF position = Null
    THEN /\ last' = Threw("isDirty", <<>>, "TypeError")
         /\ UNCHANGED <<model, hist>>
    ELSE /\ dirtyCache' = isDirtyCache
         /\ last' = [Returned("isDirty", <<>>, isDirtyReturn) EXCEPT !.after = Preceding]
         /\ hist' = [hist EXCEPT !.changes = 0, !.checked = TRUE, !.seen = Monitored,
                                  !.swallowed = @ \/ Monitored # hist.seen]
         /\ UNCHANGED <<anims, vertexCount, vertexViewF32, position, scale, rotation,
                        normalMatrix, transformMatrix>>

\* anims.update(time, delta): the animation state advanced by one update
animsUpdate(state) == <<state[1], state[2] + 1>>

\* a preUpdate that recomputes whether or not isDirty returns true
preUpdateUngated ==
    /\ anims # Null
    /\ anims[2] < MaxUpdates
    /\ anims' = animsUpdate(anims)
    /\ dirtyCache' = isDirtyCache
    /\ transformMatrix' = RecomputedTransform
    /\ normalMatrix' = RecomputedNormal(RecomputedTransform)
    /\ last' = Returned("preUpdate", <<>>, isDirtyReturn)
    /\ hist' = [hist EXCEPT !.changes = 0, !.seen = Monitored]
    /\ UNCHANGED <<vertexCount, vertexViewF32, position, scale, rotation>>

\* preUpdate(time, delta): anims.update, then the gated recompute
preUpdate ==
    IF anims = Null
    THEN /\ last' = Threw("preUpdate", <<>>, "TypeError")
         /\ UNCHANGED <<model, hist>>
    ELSE /\ anims[2] < MaxUpdates
         /\ anims' = animsUpdate(anims)
         /\ dirtyCache' = isDirtyCache
         /\ IF isDirtyReturn
            THEN /\ transformMatrix' = RecomputedTransform
                 /\ normalMatrix' = RecomputedNormal(RecomputedTransform)
            ELSE UNCHANGED <<transformMatrix, normalMatrix>>
         /\ last' = Returned("preUpdate", <<>>, isDirtyReturn)
         /\ hist' = [hist EXCEPT !.changes = 0, !.seen = Monitored]
         /\ UNCHANGED <<vertexCount, vertexViewF32, position, scale, rotation>>

-----------------------------------------------------------------------------
(* Transform mutators and accessors *)

CanMutate == position = Null \/ hist.mutations < MutationLimit(hist.load)

\* bookkeeping of one mutator call that took the transform from `before` to `after`
Mutated(before, after) ==
    [hist EXCEPT !.mutations = @ + 1,
                 !.changes = IF before = after THEN @ ELSE @ + 1,
                 !.swallowed = @ /\ before = after]

\* a write through one of the position accessors (set x / y / z)
SetPosition(op, k, value) ==
    /\ CanMutate
    /\ IF position = Null
       THEN /\ last' = Threw(op, <<value>>, "TypeError")
            /\ UNCHANGED <<model, hist>>
       ELSE /\ position' = [position EXCEPT ![k] = value]
            /\ last' = [Returned(op, <<value>>, <<>>) EXCEPT !.changed = position # position']
            /\ hist' = Mutated(position, position')
            /\ UNCHANGED <<anims, vertexCount, vertexViewF32, scale, rotation,
                           dirtyCache, normalMatrix, transformMatrix>>

\* a write through one of the scale accessors (set scaleX / scaleY / scaleZ)
SetScale(op, k, value) ==
    /\ CanMutate
    /\ IF scale = Null
       THEN /\ last' = Threw(op, <<value>>, "TypeError")
            /\ UNCHANGED <<model, hist>>
       ELSE /\ scale' = [scale EXCEPT ![k] = value]
            /\ last' = [Returned(op, <<value>>, <<>>) EXCEPT !.changed = scale # scale']
            /\ hist' = Mutated(scale, scale')
            /\ UNCHANGED <<anims, vertexCount, vertexViewF32, position, rotation,
                           dirtyCache, normalMatrix, transformMatrix>>

\* rotateX / rotateY / rotateZ (rad): this.rotation.rotate?(rad); return this
Rotate(op, q, h) ==
    /\ CanMutate
    /\ IF rotation = Null
       THEN /\ last' = Threw(op, h, "TypeError")
            /\ UNCHANGED <<model, hist>>
       ELSE /\ rotation' = q
            /\ last' = [Returned(op, h, "this") EXCEPT !.changed = rotation # rotation']
            /\ hist' = Mutated(rotation, rotation')
            /\ UNCHANGED <<anims, vertexCount, vertexViewF32, position, scale,
                           dirtyCache, normalMatrix, transformMatrix>>

setX == \E value \in XValues : SetPosition("set x", 1, value)
setY == \E value \in YValues : SetPosition("set y", 2, value)
setZ == \E value \in ZValues : SetPosition("set z", 3, value)
setScaleX == \E value \in ScaleValues : SetScale("set scaleX", 1, value)
setScaleY == \E value \in ScaleValues : SetScale("set scaleY", 2, value)
setScaleZ == \E value \in ScaleValues : SetScale("set scaleZ", 3, value)
rotateX == \E h \in HalfAngles : Rotate("rotateX", IF rotation = Null THEN Null ELSE QuatRotateX(rotation, h), h)
rotateY == \E h \in HalfAngles : Rotate("rotateY", IF rotation = Null THEN Null ELSE QuatRotateY(rotation, h), h)
rotateZ == \E h \in HalfAngles : Rotate("rotateZ", IF rotation = Null THEN Null ELSE QuatRotateZ(rotation, h), h)

\* a read through one of the accessors (get x / y / z / scaleX / scaleY / scaleZ)
Get(op, vector, k) ==
    /\ Queries(hist.load)
    /\ last' = IF vector = Null THEN Threw(op, <<>>, "TypeError")
               ELSE Returned(op, <<>>, vector[k])
    /\ UNCHANGED <<model, hist>>

getX == Get("get x", position, 1)
getY == Get("get y", position, 2)
getZ == Get("get z", position, 3)
getScaleX == Get("get scaleX", scale, 1)
getScaleY == Get("get scaleY", scale, 2)
getScaleZ == Get("get scaleZ", scale, 3)

-----------------------------------------------------------------------------
(* Vertex buffer: addVertex, getVertex, getFace, getFaceCount, addVertices *)

\* a store whose writes past the end land on the last element
StoreAtEnd(view, offset, value) ==
    IF offset + 1 \in DOMAIN view
    THEN [view EXCEPT ![offset + 1] = Fround(value)]
    ELSE [view EXCEPT ![Len(view)] = Fround(value)]

\* vertexViewF32[offset] = value: converted to float32; a write past the end is dropped
Store(view, offset, value) ==
    IF offset + 1 \in DOMAIN view
    THEN [view EXCEPT ![offset + 1] = Fround(value)]
    ELSE view

\* vertexViewF32[offset]: the element, or undefined past the end
Load(view, offset) ==
    IF offset + 1 \in DOMAIN view THEN Num(view[offset + 1]) ELSE Undefined

\* the view after addVertex(x, y, z, u, v, normalX, normalY, normalZ) = a
addVertexView(view, count, a) ==
    LET o == count * AttributeCount
    IN  Store(Store(Store(Store(Store(Store(Store(Store(view,
            o, a[1]), o + 1, a[2]), o + 2, a[3]),
            o + 3, a[6]), o + 4, a[7]), o + 5, a[8]),
            o + 6, a[4]), o + 7, a[5])

addVertex ==
    \E a \in AppendInputs(hist.load) :
        /\ vertexViewF32 = Null \/ vertexCount < AppendLimit(hist.load)
        /\ IF vertexViewF32 = Null
           THEN /\ last' = Threw("addVertex", a, "TypeError")
                /\ UNCHANGED <<model, hist>>
           ELSE /\ vertexViewF32' = addVertexView(vertexViewF32, vertexCount, a)
                /\ vertexCount' = vertexCount + 1
                /\ last' = Returned("addVertex", a, <<>>)
                /\ hist' = [hist EXCEPT !.appended = Append(@, a), !.appends = @ + 1,
                                         !.swallowed = FALSE]
                /\ UNCHANGED <<anims, position, scale, rotation, dirtyCache,
                               normalMatrix, transformMatrix>>

\* the object getVertex(index) returns
getVertexReturn(view, index) ==
    LET o == index * AttributeCount
    IN  [ x |-> Load(view, o), y |-> Load(view, o + 1), z |-> Load(view, o + 2),
          u |-> Load(view, o + 6), v |-> Load(view, o + 7),
          normalX |-> Load(view, o + 3), normalY |-> Load(view, o + 4),
          normalZ |-> Load(view, o + 5), alpha |-> Num(1) ]

\* a getVertex that writes the alpha it reports over the x it has read
getVertexWritesBack ==
    \E index \in 0..MaxIndex :
        /\ Queries(hist.load)
        /\ vertexViewF32 # Null
        /\ last' = Returned("getVertex", <<index>>, getVertexReturn(vertexViewF32, index))
        /\ vertexViewF32' = Store(vertexViewF32, index * AttributeCount, 1)
        /\ UNCHANGED <<anims, vertexCount, position, scale, rotation, dirtyCache,
                       normalMatrix, transformMatrix, hist>>

getVertex ==
    \E index \in 0..MaxIndex :
        /\ Queries(hist.load)
        /\ last' = IF vertexViewF32 = Null
                   THEN Threw("getVertex", <<index>>, "TypeError")
                   ELSE Returned("getVertex", <<index>>, getVertexReturn(vertexViewF32, index))
        /\ UNCHANGED <<model, hist>>

\* a number sitting where an object is expected
NumberValue(n) == [number |-> n]

\* a winding test that leaves the zero-area face out (> 0 in place of >= 0)
isCounterClockwiseStrict(v1, v2, v3) ==
    /\ \A c \in {v1.x, v1.y, v2.x, v2.y, v3.x, v3.y} : IsNum(c)
    /\ (v2.x[1] - v1.x[1]) * (v3.y[1] - v1.y[1])
         - (v2.y[1] - v1.y[1]) * (v3.x[1] - v1.x[1]) > 0

\* (v2.x - v1.x) * (v3.y - v1.y) - (v2.y - v1.y) * (v3.x - v1.x) >= 0;
\* arithmetic on undefined gives NaN, and NaN >= 0 is false
isCounterClockwise(v1, v2, v3) ==
    /\ \A c \in {v1.x, v1.y, v2.x, v2.y, v3.x, v3.y} : IsNum(c)
    /\ (v2.x[1] - v1.x[1]) * (v3.y[1] - v1.y[1])
         - (v2.y[1] - v1.y[1]) * (v3.x[1] - v1.x[1]) >= 0

\* the object getFace(index) returns
getFaceReturn(view, index) ==
    LET offset == index * 3
        v1 == getVertexReturn(view, offset)
        v2 == getVertexReturn(view, offset + 1)
        v3 == getVertexReturn(view, offset + 2)
    IN  [ vertex1 |-> v1, vertex2 |-> v2, vertex3 |-> NumberValue(3),
          isCounterClockwise |-> isCounterClockwise(v1, v2, v3) ]

getFace ==
    \E index \in 0..(MaxIndex \div 3) :
        /\ Queries(hist.load)
        /\ last' = IF vertexViewF32 = Null
                   THEN Threw("getFace", <<index>>, "TypeError")
                   ELSE Returned("getFace", <<index>>, getFaceReturn(vertexViewF32, index))
        /\ UNCHANGED <<model, hist>>

\* this.vertexCount / 3, as a rational
getFaceCountReturn == Rat(vertexCount, 3)

getFaceCount ==
    /\ Queries(hist.load)
    /\ last' = Returned("getFaceCount", <<>>, getFaceCountReturn)
    /\ UNCHANGED <<model, hist>>

\* this.vertices and this.faces: properties the constructor never sets
thisVertices == Undefined
thisFaces == Undefined

\* how addVertices(vertices, uvs, indicies) ends: the length check throws an Error;
\* past it, verts.push (or, with nothing to push, verts.length) reads a property of
\* undefined
addVerticesThrows(vertices, uvs, indicies) ==
    IF Len(vertices) # Len(uvs) THEN "Error"
    ELSE IF thisVertices = Undefined THEN "TypeError"
    ELSE "none"

\* an addVertices that counts its vertices in before it compares the lengths
addVerticesCountsFirst(vertices, uvs, indicies) == vertexCount + Len(vertices) \div 2

\* this.vertexCount and the view as addVertices leaves them: the Vertex objects it
\* builds are pushed to verts, never stored in the buffer, and the push itself throws
addVerticesCount(vertices, uvs, indicies) == vertexCount
addVerticesView(vertices, uvs, indicies) == vertexViewF32

addVertices ==
    \E a \in AddVerticesInputs :
        /\ Queries(hist.load)
        /\ last' = Threw("addVertices", a, addVerticesThrows(a[1], a[2], a[3]))
        /\ vertexCount' = addVerticesCount(a[1], a[2], a[3])
        /\ vertexViewF32' = addVerticesView(a[1], a[2], a[3])
        /\ UNCHANGED <<anims, position, scale, rotation, dirtyCache,
                       normalMatrix, transformMatrix, hist>>

-----------------------------------------------------------------------------
(* destroy *)

\* a destroy that also empties the buffer count
destroyResetsCount ==
    /\ anims # Null
    /\ anims' = Null
    /\ vertexViewF32' = Null
    /\ position' = Null
    /\ scale' = Null
    /\ rotation' = Null
    /\ normalMatrix' = Null
    /\ transformMatrix' = Null
    /\ vertexCount' = 0
    /\ last' = Returned("destroy", <<>>, <<>>)
    /\ hist' = [hist EXCEPT !.appended = <<>>, !.swallowed = FALSE]
    /\ UNCHANGED dirtyCache

destroy ==
    IF anims = Null
    THEN /\ last' = Threw("destroy", <<>>, "TypeError")
         /\ UNCHANGED <<model, hist>>
    ELSE /\ anims' = Null
         /\ vertexViewF32' = Null
         /\ position' = Null
         /\ scale' = Null
         /\ rotation' = Null
         /\ normalMatrix' = Null
         /\ transformMatrix' = Null
         /\ last' = Returned("destroy", <<>>, <<>>)
         /\ hist' = [hist EXCEPT !.appended = <<>>, !.swallowed = FALSE]
         /\ UNCHANGED <<vertexCount, dirtyCache>>

-----------------------------------------------------------------------------

Next ==
    \/ isDirty \/ preUpdate
    \/ setX \/ setY \/ setZ \/ setScaleX \/ setScaleY \/ setScaleZ
    \/ rotateX \/ rotateY \/ rotateZ
    \/ getX \/ getY \/ getZ \/ getScaleX \/ getScaleY \/ getScaleZ
    \/ addVertex \/ getVertex \/ getFace \/ getFaceCount \/ addVertices
    \/ destroy

Spec == Init /\ [][Next]_vars

-----------------------------------------------------------------------------
(* Properties *)

Ok(op) == last.op = op /\ last.threw = "none"
Capacity == Len(vertexViewF32) \div AttributeCount
DirtyAfter(kinds) == Ok("isDirty") /\ last.after \in kinds

AfterPreUpdate == Ok("preUpdate") /\ ~hist.checked

\* C2: immediately after each preUpdate returns (preUpdate being the only caller of
\* isDirty), transformMatrix is the matrix built from the current position, rotation
\* and scale, and normalMatrix is its inverse-transpose.
C2_CleanAfterPreUpdate ==
    AfterPreUpdate =>
        /\ transformMatrix = ScaleMatrix(FromRotationTranslation(rotation, position), scale)
        /\ MatMul(Transpose(normalMatrix), transformMatrix) = IdentityMatrix

\* the object getVertex returns for a vertex appended with the arguments a, at
\* float32 precision
VertexOf(a) ==
    [ x |-> Num(Fround(a[1])), y |-> Num(Fround(a[2])), z |-> Num(Fround(a[3])),
      u |-> Num(Fround(a[4])), v |-> Num(Fround(a[5])),
      normalX |-> Num(Fround(a[6])), normalY |-> Num(Fround(a[7])),
      normalZ |-> Num(Fround(a[8])), alpha |-> Num(1) ]

\* C3: getVertex(i), for every i in [0, vertexCount), returns the x, y, z, normalX,
\* normalY, normalZ, u, v passed to the i-th addVertex call (float32 precision),
\* each in its own field, with alpha 1.
C3_VertexRoundTrip ==
    (Ok("getVertex") /\ last.args[1] < vertexCount) =>
        last.ret = VertexOf(hist.appended[last.args[1] + 1])

\* C4: getFace(k), for 3k + 2 < vertexCount, returns a face whose vertex1, vertex2,
\* vertex3 are getVertex(3k), getVertex(3k + 1), getVertex(3k + 2).
C4_FaceVertices ==
    (Ok("getFace") /\ 3 * last.args[1] + 2 < vertexCount) =>
        /\ last.ret.vertex1 = getVertexReturn(vertexViewF32, 3 * last.args[1])
        /\ last.ret.vertex2 = getVertexReturn(vertexViewF32, 3 * last.args[1] + 1)
        /\ last.ret.vertex3 = getVertexReturn(vertexViewF32, 3 * last.args[1] + 2)

\* the x, y, z, u, v of the vertex addVertices builds from pair k of vertices / uvs
PairOf(vertices, uvs, k) ==
    [ x |-> Num(Fround(vertices[2 * k + 1])), y |-> Num(Fround(vertices[2 * k + 2])),
      z |-> Num(0),
      u |-> Num(Fround(uvs[2 * k + 1])), v |-> Num(Fround(uvs[2 * k + 2])) ]
PositionAndUV(vertex) ==
    [ x |-> vertex.x, y |-> vertex.y, z |-> vertex.z, u |-> vertex.u, v |-> vertex.v ]

\* the step is a call addVertices(a[1], a[2], a[3]) that returns, having appended
\* `pairs` to the buffer: vertexCount grown by Len(pairs), new vertex j read back by
\* getVertex as pair pairs[j] of the source arrays
Appends(a, pairs) ==
    /\ last'.threw = "none"
    /\ vertexCount' = vertexCount + Len(pairs)
    /\ \A j \in 1..Len(pairs) :
           PositionAndUV(getVertexReturn(vertexViewF32', vertexCount + j - 1))
               = PairOf(a[1], a[2], pairs[j])

\* C5: addVertices(positions, uvs) without an index array, on arrays of equal length
\* 2n, appends n vertices in array order with z = 0; addVertices([0,0,1,0,0,1],
\* [0,0,1,0,0,1]) appends 3 vertices and getFaceCount() is then 1.
C5_AddVerticesInOrder ==
    [][ (last'.op = "addVertices" /\ vertexViewF32 # Null /\ last'.args[3] = <<>>
            /\ Len(last'.args[1]) = Len(last'.args[2]))
        => /\ Appends(last'.args, [j \in 1..(Len(last'.args[1]) \div 2) |-> j - 1])
           /\ (last'.args[1] = <<0, 0, 1, 0, 0, 1>> /\ vertexCount = 0)
                 => Rat(vertexCount', 3) = R(1) ]_vars

\* C6: addVertices(positions, uvs, indices) with a non-empty index array appends
\* indices.length vertices, the j-th taken from pair indices[j] of the source arrays;
\* [0,2,1,2,3,1] over the quad appends 6 vertices, 2 faces.
C6_AddVerticesIndexed ==
    [][ (last'.op = "addVertices" /\ vertexViewF32 # Null /\ last'.args[3] # <<>>
            /\ Len(last'.args[1]) = Len(last'.args[2]))
        => /\ Appends(last'.args, last'.args[3])
           /\ (last'.args[3] = <<0, 2, 1, 2, 3, 1>> /\ vertexCount = 0)
                 => Rat(vertexCount', 3) = R(2) ]_vars

\* C7: addVertices(vertices, uvs, ...) with vertices.length different from
\* uvs.length throws an Error and changes nothing: vertexCount, the buffer, the
\* transform state, the dirty cache and the matrices are as before the call.
C7_MismatchThrowsFirst ==
    [][ (last'.op = "addVertices" /\ Len(last'.args[1]) # Len(last'.args[2]))
        => (last'.threw = "Error" /\ UNCHANGED model) ]_vars

C7_Witness ==
    /\ last.op = "addVertices" /\ last.threw = "Error"
    /\ Len(last.args[1]) # Len(last.args[2])
    /\ vertexCount > 0

\* C8: with capacity N, an addVertex below capacity succeeds (vertexCount grows by
\* one and the vertex reads back), and an addVertex at capacity is rejected with an
\* error, vertexCount staying at N: vertexCount never exceeds the capacity.
C8_CapacityEnforced ==
    [][ (last'.op = "addVertex" /\ vertexViewF32 # Null)
        => IF vertexCount < Capacity
           THEN /\ last'.threw = "none"
                /\ vertexCount' = vertexCount + 1
                /\ getVertexReturn(vertexViewF32', vertexCount) = VertexOf(last'.args)
           ELSE /\ last'.threw # "none"
                /\ vertexCount' = vertexCount ]_vars

\* C9: with position (1,2,3), the identity rotation and scale (1,1,1), after
\* preUpdate (the only caller of isDirty) transformMatrix is the pure translation by
\* (1,2,3) and normalMatrix is the identity matrix.
C9_TranslationOnly ==
    (AfterPreUpdate /\ position = <<1, 2, 3>> /\ rotation = IdentityQuat
        /\ scale = <<1, 1, 1>>)
    => /\ transformMatrix = TranslationMatrix(<<1, 2, 3>>)
       /\ normalMatrix = IdentityMatrix

\* C10: once destroy() has returned, every later call of any operation fails.
C10_FailsAfterDestroy ==
    (anims = Null /\ ~Ok("destroy")) => last.threw # "none"

\* the face index of the last getFace call, and whether it is in range
FaceIndex == last.args[1]
FaceInRange == Ok("getFace") /\ 3 * FaceIndex + 2 < vertexCount

\* C11: a getFace(k) call one of whose vertex indices 3k, 3k + 1, 3k + 2 is not
\* below vertexCount fails (throws) instead of returning a face.
C11_FaceOutOfRangeFails ==
    (last.op = "getFace" /\ 3 * FaceIndex + 2 >= vertexCount) => last.threw # "none"

\* the x, y of vertex i as the buffer holds them; <<>> when they lie past its end
BufferXY(i) ==
    IF i * AttributeCount + 2 <= Len(vertexViewF32)
    THEN <<vertexViewF32[i * AttributeCount + 1], vertexViewF32[i * AttributeCount + 2]>>
    ELSE <<>>

\* C12: for a getFace(k) with 3k + 2 < vertexCount, isCounterClockwise is true
\* exactly when (v2.x - v1.x) * (v3.y - v1.y) - (v2.y - v1.y) * (v3.x - v1.x) >= 0
\* over the x, y the buffer holds for vertices 3k, 3k + 1, 3k + 2 (zero counts as
\* counter-clockwise; with a coordinate that is not in the buffer the expression is
\* not a number, and the face is reported as not counter-clockwise).
C12_WindingByCross ==
    FaceInRange =>
        LET p1 == BufferXY(3 * FaceIndex)
            p2 == BufferXY(3 * FaceIndex + 1)
            p3 == BufferXY(3 * FaceIndex + 2)
        IN  last.ret.isCounterClockwise
              = IF <<>> \in {p1, p2, p3} THEN FALSE
                ELSE (p2[1] - p1[1]) * (p3[2] - p1[2])
                       - (p2[2] - p1[2]) * (p3[1] - p1[1]) >= 0

\* the face (0,0), (1,0), (0,1) read back as counter-clockwise
C12_Witness ==
    /\ FaceInRange
    /\ <<BufferXY(0), BufferXY(1), BufferXY(2)>> = <<(<<0, 0>>), (<<1, 0>>), (<<0, 1>>)>>
    /\ last.ret.isCounterClockwise = TRUE

\* the face (0,0), (0,1), (1,0) read back as clockwise
C12_WitnessClockwise ==
    /\ FaceInRange
    /\ <<BufferXY(0), BufferXY(1), BufferXY(2)>> = <<(<<0, 0>>), (<<0, 1>>), (<<1, 0>>)>>
    /\ last.ret.isCounterClockwise = FALSE

ReadQueries == {"getFaceCount", "getVertex", "getFace"}

\* C13: a call of getFaceCount, getVertex or getFace, returning or throwing, leaves
\* vertexCount, the buffer, position, rotation, scale, the dirty cache and both
\* matrices as they were, and with them the value the next isDirty() returns.
C13_QueriesArePure ==
    [][ last'.op \in ReadQueries
        => /\ UNCHANGED model
           /\ position # Null => (isDirtyReturn' = isDirtyReturn) ]_vars

\* a query has returned on a buffer that holds a face, with a change pending
C13_Witness ==
    /\ last.op \in ReadQueries /\ last.threw = "none"
    /\ position # Null /\ vertexCount = 3 /\ isDirtyReturn

\* the step is an isDirty() call from outside preUpdate that returns
IsDirtyReturns == last'.op = "isDirty" /\ last'.threw = "none"

\* C14: an isDirty() call returns true exactly when one of the eleven monitored
\* values differs from what it was when the previous isDirty call returned (or at
\* construction): true when a vertex was appended since, false when every value
\* that was changed since is back at what it was.
C14_DirtyIffDiffers ==
    [][ IsDirtyReturns
        => /\ last'.ret = (Monitored # hist.seen)
           /\ vertexCount > hist.seen[11] => last'.ret = TRUE
           /\ (hist.changes > 0 /\ Monitored = hist.seen) => last'.ret = FALSE ]_vars

\* isDirty has returned false right after the second of two changes of value
C14_Witness == DirtyAfter({"changed"}) /\ last.ret = FALSE

\* isDirty has returned true with nothing but appends since construction
C14_WitnessAppend ==
    /\ Ok("isDirty") /\ last.ret = TRUE /\ last.after = "other"
    /\ hist.mutations = 0 /\ vertexCount > 0

\* C15: when an isDirty() call returns, true or false, the eleven dirtyCache slots
\* equal the current position, rotation, scale and vertexCount, and anims, the
\* transform state, the buffer, vertexCount and both matrices are as before the
\* call; the isDirty call preUpdate makes leaves the cache the same way.
C15_SnapshotOverwritten ==
    [][ /\ IsDirtyReturns
           => /\ dirtyCache' = Monitored'
              /\ UNCHANGED <<anims, vertexCount, vertexViewF32, position, scale,
                             rotation, normalMatrix, transformMatrix>>
        /\ (last'.op = "preUpdate" /\ last'.threw = "none")
           => dirtyCache' = Monitored' ]_vars

\* isDirty has returned true on a stale cache, with vertices in the buffer
C15_Witness ==
    /\ Ok("isDirty") /\ last.ret = TRUE
    /\ vertexCount > 0 /\ position # <<0, 0, 0>>
    /\ dirtyCache = Monitored

\* the step is a preUpdate call that returns
PreUpdateReturns == last'.op = "preUpdate" /\ last'.threw = "none"

\* C16: a preUpdate call made while one of the monitored values differs from what it
\* was at the last check (or at construction) leaves transformMatrix equal to the
\* rotation-translation matrix of the current rotation and position, scaled by the
\* current scale, and normalMatrix equal to the inverse-transpose of that
\* transformMatrix.
C16_RebuiltWhenChanged ==
    [][ (PreUpdateReturns /\ Monitored # hist.seen)
        => /\ last'.ret = TRUE
           /\ transformMatrix'
                = ScaleMatrix(FromRotationTranslation(rotation', position'), scale')
           /\ MatMul(Transpose(normalMatrix'), transformMatrix') = IdentityMatrix
           /\ MatMul(transformMatrix', Transpose(normalMatrix')) = IdentityMatrix ]_vars

\* preUpdate has rebuilt the matrices of a rotated and scaled model
C16_Witness ==
    /\ Ok("preUpdate") /\ last.ret = TRUE
    /\ rotation # IdentityQuat /\ scale # <<1, 1, 1>>
    /\ transformMatrix # IdentityMatrix

\* C17: once an isDirty() call from outside preUpdate has returned true, every
\* preUpdate made before a monitored value is changed again finds nothing changed
\* and leaves transformMatrix and normalMatrix as they were before the change that
\* the outside call reported.
C17_ExtraCheckSwallows ==
    [][ (PreUpdateReturns /\ hist.swallowed)
        => /\ last'.ret = FALSE
           /\ UNCHANGED <<transformMatrix, normalMatrix>> ]_vars

\* preUpdate has returned after a swallowed change of the transform, the transform
\* matrix still not that of the current position, rotation and scale
C17_Witness ==
    /\ Ok("preUpdate") /\ hist.swallowed /\ hist.mutations > 0
    /\ transformMatrix # ScaleMatrix(FromRotationTranslation(rotation, position), scale)

\* C18: a preUpdate call made while every monitored value is what it was at the last
\* check (or at construction) leaves transformMatrix and normalMatrix as they were,
\* and advances the animation state by one update.
C18_RecomputeGated ==
    [][ (PreUpdateReturns /\ Monitored = hist.seen)
        => /\ last'.ret = FALSE
           /\ UNCHANGED <<transformMatrix, normalMatrix>>
           /\ anims' = <<anims[1], anims[2] + 1>> ]_vars

\* a first preUpdate has rebuilt the matrices and a second one has found nothing
\* changed
C18_Witness ==
    /\ Ok("preUpdate") /\ last.ret = FALSE /\ ~hist.checked
    /\ anims = <<"AnimationState", 2>>
    /\ transformMatrix # IdentityMatrix

\* C19: vertexCount is 0 after construction, no call of any operation decreases it,
\* an addVertex call that returns increases it by exactly one, no other call
\* changes it, and it always equals the number of addVertex calls that have returned.
C19_CountGrowsByAppends ==
    [][ /\ last.op = "Model" => vertexCount = 0
        /\ vertexCount' >= vertexCount
        /\ vertexCount' = IF last'.op = "addVertex" /\ last'.threw = "none"
                          THEN vertexCount + 1
                          ELSE vertexCount
        /\ vertexCount' = hist'.appends ]_vars

\* the count has survived checks, a failing addVertices and destroy
C19_Witness ==
    /\ anims = Null /\ last.op = "addVertices"
    /\ vertexCount > 1 /\ vertexCount = hist.appends

\* C20: an addVertex call made when vertexCount equals the capacity N returns,
\* leaves getVertex(i) as it was for every i < N, increases vertexCount to N + 1,
\* and leaves at index N a vertex that is not the one appended.
C20_OverflowKeepsStored ==
    [][ (last'.op = "addVertex" /\ vertexViewF32 # Null /\ vertexCount = Capacity)
        => /\ last'.threw = "none"
           /\ \A i \in 0..(Capacity - 1) :
                  getVertexReturn(vertexViewF32', i) = getVertexReturn(vertexViewF32, i)
           /\ vertexCount' = Capacity + 1
           /\ getVertexReturn(vertexViewF32', Capacity) # VertexOf(last'.args) ]_vars

\* a second vertex has been appended to a buffer of one, its x not in the buffer,
\* the first vertex still the one appended first
C20_Witness ==
    /\ Ok("addVertex") /\ vertexViewF32 # Null
    /\ Capacity = 1 /\ vertexCount = 2
    /\ getVertexReturn(vertexViewF32, 1).x = Undefined
    /\ getVertexReturn(vertexViewF32, 0) = VertexOf(hist.appended[1])
    /\ hist.appended[1] # hist.appended[2]

====
